---- MODULE Spec2Model ----
(***************************************************************************)
(* Model of the dependency bootstrap of evans (package di) and of the      *)
(* shutdown hook of package usecase.                                       *)
(*                                                                         *)
(* Every package-level sync.Once of di/dependency.go is a registry with a  *)
(* state "unstarted" / "running" / "done".  Execution contexts             *)
(* (goroutines) call initDependencies, Env, GRPCClient, DynamicBuilder and *)
(* InteractorParams.Cleanup; each context has a call stack of frames whose *)
(* pc names the line the frame is at.  External collaborators              *)
(* (protobuf.ParseFile, grpc.NewClient, ListServices, UsePackage,          *)
(* UseService) succeed or fail nondeterministically when they are called.  *)
(* A nil-pointer dereference is a panic, which ends the whole process.     *)
(***************************************************************************)
EXTENDS Naturals, Sequences, FiniteSets, TLC

\* ----------------------------------------------------------------- bounds
\* number of execution contexts
NumCtx == 2
\* number of top-level calls made in one run, all contexts together
MaxCalls == 3
\* longest list of proto paths or proto files given to the path resolver
MaxEntries == 3

Ctx == 1..NumCtx

\* --------------------------------------------------------------- constants
NoErr == "nil"
NilHandle == "nil"
NoRet == [val |-> NilHandle, err |-> NoErr]

\* the six registries, named after the value each sync.Once guards
Registries == {"jsonFileInputter", "promptInputter", "gRPCClient", "env",
               "jsonCLIPresenter", "dynamicBuilder"}

\* the constructor list of initDependencies, in registration order
RegisteredF == <<"initJSONFileInputter", "initPromptInputter", "initGRPCClient",
                 "initEnv", "initJSONCLIPresenter", "initDynamicBuilder">>

\* the registry each registered constructor guards its body with
RegistryOf(f) ==
    CASE f = "initJSONFileInputter" -> "jsonFileInputter"
      [] f = "initPromptInputter"   -> "promptInputter"
      [] f = "initGRPCClient"       -> "gRPCClient"
      [] f = "initEnv"              -> "env"
      [] f = "initJSONCLIPresenter" -> "jsonCLIPresenter"
      [] f = "initDynamicBuilder"   -> "dynamicBuilder"

\* constructors whose body calls no other registry and no failing collaborator
LeafF == {"initJSONFileInputter", "initJSONCLIPresenter", "initDynamicBuilder"}

\* ------------------------------------------------------------ path resolver
\* shellwords.Parser.Parse with ParseEnv = true, on the raw entries used here:
\* the words of the entry after substitution, or a parse error
ShellwordsErr(p) == IF p = "'open" THEN "ErrShellwords" ELSE NoErr

ShellwordsParse(p) ==
    CASE p = ""            -> <<>>
      [] p = "$UNSET_VAR"  -> <<>>
      [] p = "a b"         -> <<"a", "b">>
      [] p = "'./protos'"  -> <<"./protos">>
      [] p = "''"          -> <<"">>
      [] p = "'open"       -> <<>>
      [] OTHER             -> <<p>>

\* a parse that takes the first word of an entry of several words
parseFirstWord(p) ==
    IF ShellwordsErr(p) # NoErr THEN [path |-> "", err |-> ShellwordsErr(p)]
    ELSE LET res == ShellwordsParse(p) IN
         IF Len(res) = 0 THEN [path |-> "", err |-> NoErr]
         ELSE [path |-> res[1], err |-> NoErr]

\* the closure parse of resolveProtoPaths: [path, err]
parse(p) ==
    IF ShellwordsErr(p) # NoErr THEN [path |-> "", err |-> ShellwordsErr(p)]
    ELSE LET res == ShellwordsParse(p) IN
         IF Len(res) > 1 THEN [path |-> "", err |-> "ErrProtoPath"]
         ELSE IF Len(res) = 0 THEN [path |-> "", err |-> NoErr]
         ELSE [path |-> res[1], err |-> NoErr]

\* a resolver that never finds a path already encountered
InSeqNever(x, s) == FALSE

\* encountered[path]: the path is already in the list
InSeq(x, s) == \E i \in 1..Len(s) : s[i] = x

RECURSIVE resolveLoop(_, _)
\* the for loop of resolveProtoPaths over the remaining entries, paths so far
resolveLoop(rest, paths) ==
    IF rest = <<>> THEN [paths |-> paths, err |-> NoErr]
    ELSE LET r == parse(Head(rest)) IN
         IF r.err # NoErr THEN [paths |-> <<>>, err |-> r.err]
         ELSE IF InSeq(r.path, paths) \/ r.path = ""
              THEN resolveLoop(Tail(rest), paths)
              ELSE resolveLoop(Tail(rest), Append(paths, r.path))

resolveProtoPaths(c) == resolveLoop(c.ProtoPath, <<>>)

\* a resolveProtoFiles without its test for the empty name
resolveProtoFilesKeepsEmpty(c) == c.ProtoFile

\* resolveProtoFiles: the non-empty entries, in order
resolveProtoFiles(c) == SelectSeq(c.ProtoFile, LAMBDA f : f # "")

\* ------------------------------------------------------------------- state
VARIABLES
    cfg,            \* *config.Config, immutable
    once,           \* once[r]: state of the sync.Once of registry r
    initerOnce,     \* state of initerOnce
    env,            \* package variable env
    gRPCClient,     \* package variable gRPCClient
    promptInputter, \* package variable promptInputter: the env handle it wraps
    jsonFileInputter,
    jsonCLIPresenter,
    dynamicBuilder,
    initer,         \* the initializer: [f, resultCache, done]
    stack,          \* stack[c]: call stack of context c, top first
    ret,            \* ret[c]: value returned by the frame c popped last
    params,         \* params[c]: InteractorParams.GRPCClient held by c
    calls,          \* top-level calls started so far
    cleanupCalled,  \* InteractorParams.Cleanup has run
    panicAt,        \* the call on a nil handle that ended the process, or "none"
    runs,           \* runs[r]: executions of the constructor body of r
    failErr,        \* failErr[r]: the error the constructor body of r returned
    closeLog,       \* the callers of Close on a built client, in order
    seqRuns,        \* executions of the loop of initializer.init
    initStarted,    \* initDependencies calls started
    initReturns,    \* aggregates returned by initDependencies, in return order
    outcomes,       \* outcomes[a]: (value, error) pairs accessor a returned
    resolver,       \* results of resolveProtoPaths(cfg) and resolveProtoFiles(cfg)
    interactor,     \* the Interactor built by NewInteractor and its fields
    facade          \* the InteractorParams given and the last method call

vars == <<cfg, once, initerOnce, env, gRPCClient, promptInputter, jsonFileInputter,
          jsonCLIPresenter, dynamicBuilder, initer, stack, ret, params, calls,
          cleanupCalled, panicAt, runs, failErr, closeLog, seqRuns,
          initStarted, initReturns, outcomes, resolver, interactor, facade>>

\* the state outside package di's bootstrap
aux == <<resolver, interactor, facade>>

globals == <<env, gRPCClient, promptInputter, jsonFileInputter, jsonCLIPresenter,
             dynamicBuilder>>

Accessors == {"Env", "GRPCClient"}

\* a configuration: transport variant, reflection flag, default package and
\* service ("" when unset), proto search paths and files
Config(web, reflection, pkg, svc, paths) ==
    [Web |-> web, Reflection |-> reflection, Package |-> pkg, Service |-> svc,
     ProtoPath |-> paths, ProtoFile |-> <<"a.proto">>]

\* the configurations of a run: for either transport, services listed by
\* reflection with a default service, descriptors with a default package,
\* descriptors alone, and a search path that splits into two words
Configs ==
    {Config(w, TRUE, "", "svc", <<"./protos">>) : w \in BOOLEAN} \cup
    {Config(w, FALSE, "pkg", "", <<"./protos">>) : w \in BOOLEAN} \cup
    {Config(w, FALSE, "", "", <<"./protos", "./protos">>) : w \in BOOLEAN} \cup
    {Config(w, FALSE, "", "", <<"./protos", "a b">>) : w \in BOOLEAN}

\* no Interactor yet: every field holds the zero value
NoInteractor ==
    [built |-> FALSE, env |-> NilHandle, outputPort |-> NilHandle,
     inputterPort |-> NilHandle, grpcPort |-> NilHandle,
     dynamicBuilder |-> NilHandle]

\* an InteractorParams with no field set
NoParams ==
    [Env |-> NilHandle, OutputPort |-> NilHandle, InputterPort |-> NilHandle,
     DynamicBuilder |-> NilHandle, GRPCClient |-> NilHandle]

\* no method of the Interactor has been called
NoCall ==
    [method |-> "none", handler |-> "none", args |-> <<>>, hres |-> NilHandle,
     herr |-> NoErr, res |-> NilHandle, err |-> NoErr]

\* the state at program start, for any configuration
InitRest ==
    /\ once = [r \in Registries |-> "unstarted"]
    /\ initerOnce = "unstarted"
    /\ env = NilHandle
    /\ gRPCClient = NilHandle
    /\ promptInputter = NilHandle
    /\ jsonFileInputter = NilHandle
    /\ jsonCLIPresenter = NilHandle
    /\ dynamicBuilder = NilHandle
    /\ initer = [f |-> <<>>, resultCache |-> <<>>, done |-> FALSE]
    /\ stack = [c \in Ctx |-> <<>>]
    /\ ret = [c \in Ctx |-> NoRet]
    /\ params = [c \in Ctx |-> NilHandle]
    /\ calls = 0
    /\ cleanupCalled = FALSE
    /\ panicAt = "none"
    /\ runs = [r \in Registries |-> 0]
    /\ failErr = [r \in Registries |-> NoErr]
    /\ closeLog = <<>>
    /\ seqRuns = 0
    /\ initStarted = 0
    /\ initReturns = <<>>
    /\ outcomes = [a \in Accessors |-> {}]
    /\ resolver = [pathsDone |-> FALSE, paths |-> <<>>, err |-> NoErr,
                   filesDone |-> FALSE, files |-> <<>>]
    /\ interactor = NoInteractor
    /\ facade = [given |-> NoParams, last |-> NoCall]

Init ==
    /\ cfg \in Configs
    /\ InitRest

\* ------------------------------------------------------------- call stacks
\* a frame: the function, the line it is at, whether it was entered through
\* its accessor, and for initDependencies the loop index k, the result so
\* far (agg), the constructors invoked (inv) and what each returned (rets)
Frame(fn, pc, via) ==
    [fn |-> fn, pc |-> pc, via |-> via, k |-> 0, agg |-> <<>>, inv |-> <<>>,
     rets |-> <<>>]

Top(c) == Head(stack[c])

At(c, fn, pc) ==
    /\ panicAt = "none"
    /\ stack[c] # <<>>
    /\ Top(c).fn = fn
    /\ Top(c).pc = pc

\* the top frame moves to pc
Goto(c, pc) == [stack EXCEPT ![c] = <<[Top(c) EXCEPT !.pc = pc]>> \o Tail(@)]

\* the top frame moves to pc and calls fn
CallFrom(c, pc, callee) ==
    [stack EXCEPT ![c] = <<callee, [Top(c) EXCEPT !.pc = pc]>> \o Tail(@)]

\* the top frame of c returns r to its caller; a call made through an
\* accessor records the pair it returned, and a context keeps the client a
\* top-level GRPCClient call gave it for its InteractorParams
Pop(c, r) ==
    LET top  == Top(c)
        rest == Tail(stack[c])
    IN  /\ stack' = [stack EXCEPT ![c] = rest]
        /\ ret' = [ret EXCEPT ![c] = IF rest = <<>> THEN NoRet ELSE r]
        /\ outcomes' = IF top.via \in Accessors
                       THEN [outcomes EXCEPT ![top.via] = @ \cup {r}]
                       ELSE outcomes
        /\ params' = IF rest = <<>> /\ top.via = "GRPCClient" /\ r.err = NoErr
                     THEN [params EXCEPT ![c] = r.val]
                     ELSE params
        /\ UNCHANGED aux

\* a nil pointer dereference: the process ends
Panic(site) ==
    /\ panicAt' = site
    /\ UNCHANGED <<cfg, once, initerOnce, globals, initer, stack, ret, params,
                   calls, cleanupCalled, runs, failErr, closeLog, seqRuns,
                   initStarted, initReturns, outcomes, aux>>

\* --------------------------------------------------------------- sync.Once
\* a Do that tests only for completion lets a second caller in while the
\* function is still running
OnceFreeUnlocked(s) == s # "done"

\* Once.Do runs its function when no call has started it yet
OnceFree(s) == s = "unstarted"

\* a Do whose fast path returns as soon as the function has been started
OnceDoneEarly(s) == s # "unstarted"

\* Once.Do returns at once when the function has completed
OnceDone(s) == s = "done"

\* ------------------------------------------------ constructors without calls
\* initJSONFileInputter, initJSONCLIPresenter, initDynamicBuilder: the body
\* calls nothing that blocks or fails, so Do is one step
\* a constructor that builds without marking its Once
LeafOnceUnmarked(o, r) == o

LeafOnce(o, r) == IF OnceFree(o[r]) THEN [o EXCEPT ![r] = "done"] ELSE o

LeafRuns(o, rn, r) == IF OnceFree(o[r]) THEN [rn EXCEPT ![r] = @ + 1] ELSE rn

\* a body that builds the component without storing it in its variable
LeafBuiltForgets(o, r, target, old) == old

LeafBuilt(o, r, target, old) == IF r = target /\ OnceFree(o[r]) THEN target ELSE old

\* the package variables after the leaf constructor of registry r, given the
\* registry states o before it
LeafGlobals(o, r) ==
    /\ jsonFileInputter' = LeafBuilt(o, r, "jsonFileInputter", jsonFileInputter)
    /\ jsonCLIPresenter' = LeafBuilt(o, r, "jsonCLIPresenter", jsonCLIPresenter)
    /\ dynamicBuilder' = LeafBuilt(o, r, "dynamicBuilder", dynamicBuilder)

\* ----------------------------------------------------------------- accessors
\* an Env that swallows the error of initEnv
EnvDropsError(via, err, e) ==
    [val |-> IF via = "Env" /\ err = NoErr THEN e ELSE NilHandle, err |-> NoErr]

\* Env: (nil, err) when initEnv returned an error, else (env, nil);
\* a direct call of initEnv returns the error alone
Env(via, err, e) ==
    IF via = "Env" /\ err = NoErr THEN [val |-> e, err |-> NoErr]
    ELSE [val |-> NilHandle, err |-> err]

\* GRPCClient: (nil, err) when initGRPCClient returned an error, else
\* (gRPCClient, nil)
GRPCClient(via, err, cl) ==
    IF via = "GRPCClient" /\ err = NoErr THEN [val |-> cl, err |-> NoErr]
    ELSE [val |-> NilHandle, err |-> err]

\* ------------------------------------------------------------ top-level calls
CanCall(c) ==
    /\ panicAt = "none"
    /\ stack[c] = <<>>
    /\ calls < MaxCalls

CallInitDependencies(c) ==
    /\ CanCall(c)
    /\ calls' = calls + 1
    /\ initStarted' = initStarted + 1
    /\ initerOnce' = "done"
    /\ initer' = IF OnceFree(initerOnce)
                 THEN [f |-> RegisteredF, resultCache |-> <<>>, done |-> FALSE]
                 ELSE initer
    /\ stack' = [stack EXCEPT ![c] = <<Frame("initDependencies", "check", "direct")>>]
    /\ UNCHANGED <<cfg, once, globals, ret, params, cleanupCalled, panicAt, runs,
                   failErr, closeLog, seqRuns, initReturns, outcomes, aux>>

CallEnv(c) ==
    /\ CanCall(c)
    /\ calls' = calls + 1
    /\ stack' = [stack EXCEPT ![c] = <<Frame("initEnv", "do", "Env")>>]
    /\ UNCHANGED <<cfg, once, initerOnce, globals, initer, ret, params,
                   cleanupCalled, panicAt, runs, failErr, closeLog, seqRuns,
                   initStarted, initReturns, outcomes, aux>>

CallGRPCClient(c) ==
    /\ CanCall(c)
    /\ calls' = calls + 1
    /\ stack' = [stack EXCEPT ![c] = <<Frame("initGRPCClient", "do", "GRPCClient")>>]
    /\ UNCHANGED <<cfg, once, initerOnce, globals, initer, ret, params,
                   cleanupCalled, panicAt, runs, failErr, closeLog, seqRuns,
                   initStarted, initReturns, outcomes, aux>>

CallDynamicBuilder(c) ==
    /\ CanCall(c)
    /\ calls' = calls + 1
    /\ once' = LeafOnce(once, "dynamicBuilder")
    /\ runs' = LeafRuns(once, runs, "dynamicBuilder")
    /\ LeafGlobals(once, "dynamicBuilder")
    /\ UNCHANGED <<cfg, initerOnce, env, gRPCClient, promptInputter, initer, stack,
                   ret, params, cleanupCalled, panicAt, failErr, closeLog, seqRuns,
                   initStarted, initReturns, outcomes, aux>>

\* InteractorParams.Cleanup, the shutdown hook, run once in a process
Cleanup(c) ==
    /\ CanCall(c)
    /\ ~cleanupCalled
    /\ calls' = calls + 1
    /\ cleanupCalled' = TRUE
    /\ closeLog' = IF params[c] # NilHandle THEN Append(closeLog, "Cleanup")
                   ELSE closeLog
    /\ UNCHANGED <<cfg, once, initerOnce, globals, initer, stack, ret, params,
                   panicAt, runs, failErr, seqRuns, initStarted, initReturns,
                   outcomes, aux>>

\* -------------------------------------------------- initializer.init, the loop
\* initDependencies after initer.init() returned agg: a non-nil result closes
\* gRPCClient, whatever it holds, and is returned
Finish(c, agg) ==
    IF agg # <<>> /\ gRPCClient = NilHandle
    THEN Panic("gRPCClient.Close")
    ELSE /\ stack' = [stack EXCEPT ![c] = Tail(@)]
         /\ ret' = [ret EXCEPT ![c] = NoRet]
         /\ initReturns' = Append(initReturns, agg)
         /\ closeLog' = IF agg # <<>> THEN Append(closeLog, "initDependencies")
                        ELSE closeLog
         /\ UNCHANGED <<cfg, once, initerOnce, globals, initer, params, calls,
                        cleanupCalled, panicAt, runs, failErr, seqRuns, initStarted,
                        outcomes, aux>>

\* if i.done { return i.resultCache }
InitCheck(c) ==
    /\ At(c, "initDependencies", "check")
    /\ IF initer.done
       THEN Finish(c, initer.resultCache)
       ELSE /\ stack' = Goto(c, "mark")
            /\ UNCHANGED <<cfg, once, initerOnce, globals, initer, ret, params,
                           calls, cleanupCalled, panicAt, runs, failErr, closeLog,
                           seqRuns, initStarted, initReturns, outcomes, aux>>

\* i.done = true; var result error
InitMark(c) ==
    /\ At(c, "initDependencies", "mark")
    /\ initer' = [initer EXCEPT !.done = TRUE]
    /\ seqRuns' = seqRuns + 1
    /\ stack' = [stack EXCEPT ![c] =
                    <<[Top(c) EXCEPT !.pc = "loop", !.k = 1]>> \o Tail(@)]
    /\ UNCHANGED <<cfg, once, initerOnce, globals, ret, params, calls,
                   cleanupCalled, panicAt, runs, failErr, closeLog, initStarted,
                   initReturns, outcomes, aux>>

\* a fail-fast loop: the first error ends it
AfterFFailFast(fr, err) ==
    [fr EXCEPT !.pc = "loop",
               !.k = IF err # NoErr THEN Len(RegisteredF) + 1 ELSE @ + 1,
               !.agg = IF err # NoErr THEN Append(@, err) ELSE @]

\* the frame after f[k] returned err: the error is appended, the loop goes on
AfterF(fr, err) ==
    [fr EXCEPT !.pc = "loop",
               !.k = @ + 1,
               !.agg = IF err # NoErr THEN Append(@, err) ELSE @]

\* f[k] is a constructor without calls: it runs and returns nil in one step
InitLoopLeaf(c) ==
    /\ At(c, "initDependencies", "loop")
    /\ Top(c).k <= Len(initer.f)
    /\ initer.f[Top(c).k] \in LeafF
    /\ LET f == initer.f[Top(c).k]
           r == RegistryOf(f)
       IN  /\ once' = LeafOnce(once, r)
           /\ runs' = LeafRuns(once, runs, r)
           /\ LeafGlobals(once, r)
           /\ stack' = [stack EXCEPT ![c] =
                 <<AfterF([Top(c) EXCEPT !.inv = Append(@, f),
                                       !.rets = Append(@, NoErr)], NoErr)>> \o Tail(@)]
    /\ UNCHANGED <<cfg, initerOnce, env, gRPCClient, promptInputter, initer, ret,
                   params, calls, cleanupCalled, panicAt, failErr, closeLog,
                   seqRuns, initStarted, initReturns, outcomes, aux>>

\* f[k] is initPromptInputter, initGRPCClient or initEnv: it is called
InitLoopCall(c) ==
    /\ At(c, "initDependencies", "loop")
    /\ Top(c).k <= Len(initer.f)
    /\ initer.f[Top(c).k] \notin LeafF
    /\ LET f == initer.f[Top(c).k]
       IN  stack' = [stack EXCEPT ![c] =
                <<Frame(f, "do", "direct"),
                  [Top(c) EXCEPT !.pc = "ret", !.inv = Append(@, f)]>> \o Tail(@)]
    /\ UNCHANGED <<cfg, once, initerOnce, globals, initer, ret, params, calls,
                   cleanupCalled, panicAt, runs, failErr, closeLog, seqRuns,
                   initStarted, initReturns, outcomes, aux>>

\* if err := f(); err != nil { result = multierror.Append(result, err) }
InitLoopRet(c) ==
    /\ At(c, "initDependencies", "ret")
    /\ stack' = [stack EXCEPT ![c] = <<AfterF([Top(c) EXCEPT !.rets = Append(@, ret[c].err)],
                                       ret[c].err)>> \o Tail(@)]
    /\ ret' = [ret EXCEPT ![c] = NoRet]
    /\ UNCHANGED <<cfg, once, initerOnce, globals, initer, params, calls,
                   cleanupCalled, panicAt, runs, failErr, closeLog, seqRuns,
                   initStarted, initReturns, outcomes, aux>>

\* the loop is over: init returns result, initDependencies finishes
InitLoopEnd(c) ==
    /\ At(c, "initDependencies", "loop")
    /\ Top(c).k > Len(initer.f)
    /\ Finish(c, Top(c).agg)

\* ------------------------------------------------------- initPromptInputter
PromptDo(c) ==
    /\ At(c, "initPromptInputter", "do")
    /\ \/ /\ OnceDone(once["promptInputter"])
          /\ Pop(c, NoRet)
          /\ UNCHANGED <<once, runs>>
       \/ /\ OnceFree(once["promptInputter"])
          /\ once' = [once EXCEPT !["promptInputter"] = "running"]
          /\ runs' = [runs EXCEPT !["promptInputter"] = @ + 1]
          /\ stack' = CallFrom(c, "body", Frame("initEnv", "do", "Env"))
          /\ UNCHANGED <<ret, params, outcomes, aux>>
    /\ UNCHANGED <<cfg, initerOnce, globals, initer, calls, cleanupCalled, panicAt,
                   failErr, closeLog, seqRuns, initStarted, initReturns>>

\* e, err = Env(cfg); promptInputter = inputter.NewPrompt(format, e)
PromptBody(c) ==
    /\ At(c, "initPromptInputter", "body")
    /\ promptInputter' = [e |-> ret[c].val]
    /\ once' = [once EXCEPT !["promptInputter"] = "done"]
    /\ failErr' = [failErr EXCEPT !["promptInputter"] = ret[c].err]
    /\ Pop(c, [val |-> NilHandle, err |-> ret[c].err])
    /\ UNCHANGED <<cfg, initerOnce, env, gRPCClient, jsonFileInputter,
                   jsonCLIPresenter, dynamicBuilder, initer, calls, cleanupCalled,
                   panicAt, runs, closeLog, seqRuns, initStarted, initReturns>>

\* ------------------------------------------------------------ initGRPCClient
GRPCDo(c) ==
    /\ At(c, "initGRPCClient", "do")
    /\ \/ /\ OnceDone(once["gRPCClient"])
          /\ Pop(c, GRPCClient(Top(c).via, NoErr, gRPCClient))
          /\ UNCHANGED <<once, runs>>
       \/ /\ OnceFree(once["gRPCClient"])
          /\ once' = [once EXCEPT !["gRPCClient"] = "running"]
          /\ runs' = [runs EXCEPT !["gRPCClient"] = @ + 1]
          /\ stack' = Goto(c, "body")
          /\ UNCHANGED <<ret, params, outcomes, aux>>
    /\ UNCHANGED <<cfg, initerOnce, globals, initer, calls, cleanupCalled, panicAt,
                   failErr, closeLog, seqRuns, initStarted, initReturns>>

\* the client and error the body produces: the web client is built from the
\* message builder and cannot fail, grpc.NewClient dials and may fail, and
\* then returns no client: gRPCClient is assigned nil together with the error
NewClientResults(c) ==
    IF c.Web THEN {[val |-> "webClient", err |-> NoErr]}
    ELSE {[val |-> "client", err |-> NoErr], [val |-> NilHandle, err |-> "ErrNewClient"]}

GRPCBody(c) ==
    /\ At(c, "initGRPCClient", "body")
    /\ \E r \in NewClientResults(cfg) :
          /\ gRPCClient' = r.val
          /\ failErr' = [failErr EXCEPT !["gRPCClient"] = r.err]
          /\ LET o == IF cfg.Web THEN LeafOnce(once, "dynamicBuilder") ELSE once
             IN  once' = [o EXCEPT !["gRPCClient"] = "done"]
          /\ runs' = IF cfg.Web THEN LeafRuns(once, runs, "dynamicBuilder") ELSE runs
          /\ dynamicBuilder' = IF cfg.Web
                THEN LeafBuilt(once, "dynamicBuilder", "dynamicBuilder", dynamicBuilder)
                ELSE dynamicBuilder
          /\ Pop(c, GRPCClient(Top(c).via, r.err, r.val))
    /\ UNCHANGED <<cfg, initerOnce, env, promptInputter, jsonFileInputter,
                   jsonCLIPresenter, initer, calls, cleanupCalled, panicAt,
                   closeLog, seqRuns, initStarted, initReturns>>

\* ------------------------------------------------------------------- initEnv
\* the error of the first part of the body, up to protobuf.ParseFile, which
\* may fail on any input: "nil" when the body goes on to GRPCClient
ParseErrors(c) ==
    IF resolveProtoPaths(c).err # NoErr THEN {resolveProtoPaths(c).err}
    ELSE {NoErr, "ErrParseFile"}

\* UseService on the environment e when a default service is configured
UseServiceResults(c, e) ==
    {[env |-> e, err |-> NoErr]} \cup
    (IF c.Service # "" THEN {[env |-> e, err |-> "ErrUseService"]} ELSE {})

\* the environment and error the rest of the body produces with a client
\* at hand: by reflection, or from the descriptors and the default package
NewEnvResults(c) ==
    IF c.Reflection
    THEN {[env |-> NilHandle, err |-> "ErrListServices"]}
         \cup UseServiceResults(c, "envFromServices")
    ELSE (IF c.Package # "" THEN {[env |-> "envFromDesc", err |-> "ErrUsePackage"]}
          ELSE {})
         \cup UseServiceResults(c, "envFromDesc")

\* the body ends with error err and environment e: Do completes, initEnv returns
EnvEnd(c, e, err) ==
    /\ env' = e
    /\ once' = [once EXCEPT !["env"] = "done"]
    /\ failErr' = [failErr EXCEPT !["env"] = err]
    /\ Pop(c, Env(Top(c).via, err, e))
    /\ UNCHANGED panicAt

EnvDo(c) ==
    /\ At(c, "initEnv", "do")
    /\ \/ /\ OnceDone(once["env"])
          /\ Pop(c, Env(Top(c).via, NoErr, env))
          /\ UNCHANGED <<once, runs, env, failErr>>
       \/ /\ OnceFree(once["env"])
          /\ runs' = [runs EXCEPT !["env"] = @ + 1]
          /\ \E err \in ParseErrors(cfg) :
                IF err # NoErr
                THEN EnvEnd(c, env, err)
                ELSE /\ once' = [once EXCEPT !["env"] = "running"]
                     /\ stack' = CallFrom(c, "client",
                                          Frame("initGRPCClient", "do", "GRPCClient"))
                     /\ UNCHANGED <<ret, params, outcomes, env, failErr, aux>>
    /\ UNCHANGED <<cfg, initerOnce, gRPCClient, promptInputter, jsonFileInputter,
                   jsonCLIPresenter, dynamicBuilder, initer, calls, cleanupCalled,
                   panicAt, closeLog, seqRuns, initStarted, initReturns>>

\* gRPCClient, err := GRPCClient(cfg) has returned; the rest of the body
EnvClient(c) ==
    /\ At(c, "initEnv", "client")
    /\ IF ret[c].err # NoErr
       THEN /\ EnvEnd(c, env, ret[c].err)
            /\ UNCHANGED <<cfg, initerOnce, gRPCClient, promptInputter,
                           jsonFileInputter, jsonCLIPresenter, dynamicBuilder,
                           initer, calls, cleanupCalled, runs, closeLog, seqRuns,
                           initStarted, initReturns>>
       ELSE IF ret[c].val = NilHandle
       THEN Panic("gRPCClient.ReflectionEnabled")
       ELSE /\ \E r \in NewEnvResults(cfg) : EnvEnd(c, r.env, r.err)
            /\ UNCHANGED <<cfg, initerOnce, gRPCClient, promptInputter,
                           jsonFileInputter, jsonCLIPresenter, dynamicBuilder,
                           initer, calls, cleanupCalled, runs, closeLog, seqRuns,
                           initStarted, initReturns>>

\* ------------------------------------------------------------ specification
Step(c) ==
    \/ CallInitDependencies(c)
    \/ CallEnv(c)
    \/ CallGRPCClient(c)
    \/ CallDynamicBuilder(c)
    \/ Cleanup(c)
    \/ InitCheck(c)
    \/ InitMark(c)
    \/ InitLoopLeaf(c)
    \/ InitLoopCall(c)
    \/ InitLoopRet(c)
    \/ InitLoopEnd(c)
    \/ PromptDo(c)
    \/ PromptBody(c)
    \/ GRPCDo(c)
    \/ GRPCBody(c)
    \/ EnvDo(c)
    \/ EnvClient(c)

\* any number of contexts, interleaved
Next == \E c \in Ctx : Step(c)

Spec == Init /\ [][Next]_vars

\* one context making its calls one after the other
NextSeq == Step(1)

SpecSeq == Init /\ [][NextSeq]_vars

\* ------------------------------------------------------------------ claims
\* registries whose constructor body has failed
Failed == {r \in Registries : failErr[r] # NoErr}

\* the number of Close calls made by caller who
ClosesBy(who) == Cardinality({i \in 1..Len(closeLog) : closeLog[i] = who})

\* context c is inside initDependencies, whose frame is the bottom one
InInit(c) ==
    /\ stack[c] # <<>>
    /\ stack[c][Len(stack[c])].fn = "initDependencies"

InitFrame(c) == stack[c][Len(stack[c])]

\* C1: under any number of concurrent and sequential callers, the constructor
\* body of every registry is executed at most once in the whole run.
C1_ConstructorAtMostOnce == \A r \in Registries : runs[r] <= 1

\* a second caller waits at the Do of the network client while its body runs
C1_Witness ==
    /\ once["gRPCClient"] = "running"
    /\ runs["gRPCClient"] = 1
    /\ \E c \in Ctx : At(c, "initGRPCClient", "do")

\* C2: once a registry's constructor has finished, every call of its accessor
\* returns the identical outcome, and after a failed construction no caller
\* receives a nil error.
C2_CachedOutcomeIdentical ==
    /\ \A a \in Accessors : Cardinality(outcomes[a]) <= 1
    /\ failErr["env"] # NoErr => \A o \in outcomes["Env"] : o.err # NoErr
    /\ failErr["gRPCClient"] # NoErr => \A o \in outcomes["GRPCClient"] : o.err # NoErr

\* C3: every call of initDependencies after the first returns the aggregate
\* the first call returned, and runs no constructor body again.
C3_InitIdempotent ==
    /\ \A i \in 1..Len(initReturns) : initReturns[i] = initReturns[1]
    /\ \A r \in Registries : runs[r] <= 1

\* C4: when every constructor succeeds, the first and the second call of
\* initDependencies return an empty aggregate and, after both, every
\* constructor body has run exactly once.
C4_AllSucceedTwice ==
    (/\ Len(initReturns) >= 2
     /\ Len(initReturns) = initStarted
     /\ Failed = {})
    => /\ \A i \in 1..Len(initReturns) : initReturns[i] = <<>>
       /\ \A r \in Registries : runs[r] = 1

\* two calls have returned empty with nothing failed and every body run once
C4_Witness ==
    /\ Len(initReturns) = 2
    /\ initStarted = 2
    /\ Failed = {}
    /\ \A i \in 1..2 : initReturns[i] = <<>>
    /\ \A r \in Registries : runs[r] = 1

\* C5: the failure cleanup of initDependencies calls Close only on a client
\* that was built: with a missing (nil) client it makes no Close call and
\* still returns the aggregate.
C5_NoCloseOnMissingClient == panicAt # "gRPCClient.Close"

\* C6: in every run the network client's Close executes at most once, over
\* initDependencies, the accessors and InteractorParams.Cleanup.
C6_CloseAtMostOnce == Len(closeLog) <= 1

\* the constructor steps that run after the network client is built
LaterStepErrors == {"ErrListServices", "ErrUsePackage", "ErrUseService"}

\* C7: if the network client is built and a later constructor step fails,
\* initDependencies returns a non-empty aggregate and Close has run exactly
\* once when it returns.
C7_LaterFailureClosesOnce ==
    (Len(initReturns) >= 1 /\ failErr["env"] \in LaterStepErrors)
    => /\ initReturns[1] # <<>>
       /\ ClosesBy("initDependencies") = 1

\* C8: if any constructor body fails, in whichever context, every
\* initDependencies call returns a non-empty aggregate.
C8_NoSilentSuccess ==
    Failed # {} => \A i \in 1..Len(initReturns) : initReturns[i] # <<>>

\* C9: with concurrent callers of initDependencies the constructor sequence
\* runs exactly once and no call returns success before every constructor of
\* the list has finished.
C9_WholeSequenceOnce ==
    /\ seqRuns <= 1
    /\ \A i \in 1..Len(initReturns) :
          initReturns[i] = <<>> => \A r \in Registries : once[r] = "done"

\* C10: the first initDependencies call invokes every registered constructor
\* in registration order whether or not earlier ones failed, and appends each
\* failure to the aggregate.
C10_LoopNeverHalts ==
    \A c \in Ctx :
        (InInit(c) /\ InitFrame(c).pc \in {"loop", "ret"}) =>
            LET fr == InitFrame(c) IN
            /\ fr.inv = SubSeq(RegisteredF, 1, Len(fr.inv))
            /\ Len(fr.inv) = (IF fr.pc = "ret" THEN fr.k ELSE fr.k - 1)
            /\ fr.agg = SelectSeq(fr.rets, LAMBDA e : e # NoErr)
            /\ (fr.pc = "loop" /\ fr.k > Len(RegisteredF)) => fr.inv = RegisteredF

\* the loop is over with the second constructor failed and all six invoked
C10_Witness ==
    \E c \in Ctx :
        /\ At(c, "initDependencies", "loop")
        /\ Top(c).k > Len(RegisteredF)
        /\ Top(c).rets[2] # NoErr
        /\ Top(c).inv = RegisteredF
        /\ Top(c).agg # <<>>

\* the errors the environment constructor raises itself, before and after
\* it asks for the network client
OwnEnvErrors == {"ErrProtoPath", "ErrShellwords", "ErrParseFile",
                 "ErrListServices", "ErrUsePackage", "ErrUseService"}

\* the constructors that failed by themselves, not through a dependency
RootFailed ==
    {r \in {"env"} : failErr["env"] \in OwnEnvErrors} \cup
    {r \in {"gRPCClient"} : failErr["gRPCClient"] # NoErr}

\* C11: with exactly one failing constructor, the aggregate of the first
\* initDependencies call holds exactly one error and every other component
\* is built and wired to built dependencies.
C11_OneFailureOthersUsable ==
    (Len(initReturns) >= 1 /\ Cardinality(RootFailed) = 1)
    => /\ Len(initReturns[1]) = 1
       /\ jsonFileInputter # NilHandle
       /\ jsonCLIPresenter # NilHandle
       /\ dynamicBuilder # NilHandle
       /\ "gRPCClient" \notin RootFailed => gRPCClient # NilHandle
       /\ "env" \notin RootFailed => env # NilHandle
       /\ once["promptInputter"] = "done"
       /\ promptInputter.e # NilHandle

\* C12: with two independent failing constructors, the first
\* initDependencies call returns an aggregate of exactly two errors, in
\* registration order.
C12_TwoFailuresInOrder ==
    Cardinality(RootFailed) = 2
    => /\ panicAt = "none"
       /\ Len(initReturns) >= 1 =>
             initReturns[1] = <<failErr["env"], failErr["gRPCClient"]>>

\* C13: no caller of Env or GRPCClient returns before the constructor the
\* first caller started has run to completion; a concurrent caller waits.
C13_NoReturnBeforeBuilt ==
    /\ outcomes["Env"] # {} => once["env"] = "done"
    /\ outcomes["GRPCClient"] # {} => once["gRPCClient"] = "done"
    /\ \A c \in Ctx : \A i \in 1..Len(stack[c]) :
          (stack[c][i].fn = "initPromptInputter" /\ stack[c][i].pc = "body" /\ i = 1)
          => once["env"] = "done"

\* a caller of Env waits at the Do while another context runs the body
C13_Witness ==
    /\ once["env"] = "running"
    /\ outcomes["Env"] = {}
    /\ \E c, d \in Ctx :
          /\ c # d
          /\ At(c, "initEnv", "do")
          /\ stack[d] # <<>>
          /\ \E i \in 1..Len(stack[d]) :
                stack[d][i].fn = "initEnv" /\ stack[d][i].pc = "client"

\* C17: dependency order. A successfully built environment implies a
\* successfully completed network client; a built prompt inputter implies a
\* completed environment constructor; a built web client implies a built
\* message builder.
C17_DependencyOrder ==
    /\ (once["env"] = "done" /\ failErr["env"] = NoErr)
       => /\ once["gRPCClient"] = "done"
          /\ failErr["gRPCClient"] = NoErr
          /\ gRPCClient # NilHandle
    /\ once["promptInputter"] = "done" => once["env"] = "done"
    /\ gRPCClient = "webClient" => dynamicBuilder # NilHandle

\* environment, prompt inputter and web client are all built
C17_Witness ==
    /\ once["env"] = "done"
    /\ failErr["env"] = NoErr
    /\ env # NilHandle
    /\ once["promptInputter"] = "done"
    /\ gRPCClient = "webClient"

\* the entries of the sequence s
Range(s) == {s[i] : i \in 1..Len(s)}

\* C19: in a single-context first initDependencies call every failure is
\* reported exactly once, at the entry that triggered it: a failure of the
\* environment or the client raised through initPromptInputter is entry 2's
\* error, and the later direct entries initGRPCClient and initEnv add nothing
\* for it.
C19_EachFailureOnce ==
    \A c \in Ctx :
        (calls = 1 /\ At(c, "initDependencies", "loop")
                   /\ Top(c).k > Len(RegisteredF)) =>
            LET fr == Top(c) IN
            /\ Len(fr.agg) = Cardinality(Range(fr.agg))
            /\ Range(fr.agg) = {failErr[r] : r \in Failed}
            /\ Len(fr.agg) = Cardinality(RootFailed)
            /\ fr.rets[4] = NoErr
            /\ failErr["env"] # NoErr => fr.rets[2] = failErr["env"]
            /\ failErr["env"] = "ErrNewClient" => fr.rets[3] = NoErr

\* the client failed inside Env inside initPromptInputter: one entry, at 2
C19_Witness ==
    \E c \in Ctx :
        /\ calls = 1
        /\ At(c, "initDependencies", "loop")
        /\ Top(c).k > Len(RegisteredF)
        /\ failErr["gRPCClient"] = "ErrNewClient"
        /\ failErr["env"] = "ErrNewClient"
        /\ Top(c).rets = <<NoErr, "ErrNewClient", NoErr, NoErr, NoErr, NoErr>>
        /\ Top(c).agg = <<"ErrNewClient">>

\* ------------------------------------------------- the path resolver, called
\* raw proto paths: plain, quoted, empty, an unset variable, an empty quoted
\* word, two words, an unterminated quote
RawPaths == {"./protos", "'./protos'", "lib", "", "$UNSET_VAR", "''", "a b", "'open"}

\* raw proto file names: plain, empty, with a space, with a variable
RawFiles == {"a.proto", "", "b c.proto", "$UNSET_VAR"}

\* the sequences over S of length at most n
SeqsUpTo(S, n) == UNION {[1..k -> S] : k \in 0..n}

\* configurations for the path resolver: any list of raw paths with one
\* proto file, or any list of raw file names with one proto path
PathConfigs ==
    {[Config(FALSE, FALSE, "", "", ps) EXCEPT !.ProtoFile = <<"a.proto">>] :
        ps \in SeqsUpTo(RawPaths, MaxEntries)} \cup
    {[Config(FALSE, FALSE, "", "", <<"./protos">>) EXCEPT !.ProtoFile = fs] :
        fs \in SeqsUpTo(RawFiles, MaxEntries)}

InitPaths ==
    /\ cfg \in PathConfigs
    /\ InitRest

di == <<cfg, once, initerOnce, globals, initer, stack, ret, params, calls,
        cleanupCalled, panicAt, runs, failErr, closeLog, seqRuns, initStarted,
        initReturns, outcomes>>

\* paths, err := resolveProtoPaths(cfg)
ResolvePaths ==
    /\ ~resolver.pathsDone
    /\ resolver' = [resolver EXCEPT !.pathsDone = TRUE,
                                    !.paths = resolveProtoPaths(cfg).paths,
                                    !.err = resolveProtoPaths(cfg).err]
    /\ UNCHANGED <<di, interactor, facade>>

\* files := resolveProtoFiles(cfg)
ResolveFiles ==
    /\ ~resolver.filesDone
    /\ resolver' = [resolver EXCEPT !.filesDone = TRUE,
                                    !.files = resolveProtoFiles(cfg)]
    /\ UNCHANGED <<di, interactor, facade>>

\* the resolver called alone, and by one context through Env
NextPaths ==
    \/ ResolvePaths
    \/ ResolveFiles
    \/ CallEnv(1)
    \/ EnvDo(1)
    \/ GRPCDo(1)
    \/ GRPCBody(1)
    \/ EnvClient(1)

SpecPaths == InitPaths /\ [][NextPaths]_vars

\* the raw entry p expands to no word or to one
OneToken(p) == ShellwordsErr(p) = NoErr /\ Len(ShellwordsParse(p)) <= 1

\* the raw entry p expands to more than one word
Ambiguous(p) == ShellwordsErr(p) = NoErr /\ Len(ShellwordsParse(p)) > 1

\* the word a one-token entry expands to, "" when it expands to none
Expand(p) == IF Len(ShellwordsParse(p)) = 0 THEN "" ELSE ShellwordsParse(p)[1]

\* the k-th smallest member of the set S of numbers
Kth(S, k) == CHOOSE i \in S : Cardinality({j \in S : j < i}) = k - 1

\* the positions of in that hold the first occurrence of a non-empty path
FirstOccurrences(in) ==
    {i \in 1..Len(in) :
        /\ Expand(in[i]) # ""
        /\ \A j \in 1..(i - 1) : Expand(in[j]) # Expand(in[i])}

\* C14: for a list whose entries each expand to at most one token,
\* resolveProtoPaths returns without error the non-empty expansions, each
\* once at the place of its first occurrence, in input order.
C14_PathsDeduplicated ==
    (/\ resolver.pathsDone
     /\ \A i \in 1..Len(cfg.ProtoPath) : OneToken(cfg.ProtoPath[i]))
    => /\ resolver.err = NoErr
       /\ Len(resolver.paths) = Cardinality(FirstOccurrences(cfg.ProtoPath))
       /\ \A k \in 1..Len(resolver.paths) :
             resolver.paths[k] =
                Expand(cfg.ProtoPath[Kth(FirstOccurrences(cfg.ProtoPath), k)])

\* a path, an entry that expands to nothing, and the same path quoted
C14_Witness ==
    /\ resolver.pathsDone
    /\ cfg.ProtoPath = <<"./protos", "$UNSET_VAR", "'./protos'">>
    /\ resolver.paths = <<"./protos">>
    /\ resolver.err = NoErr

\* C15: resolveProtoPaths fails and returns no list whenever some entry
\* expands to more than one token, wherever it stands; the environment
\* constructor then fails before the network client is requested.
C15_AmbiguousPathFails ==
    (\E i \in 1..Len(cfg.ProtoPath) : Ambiguous(cfg.ProtoPath[i]))
    => /\ resolver.pathsDone => (resolver.err # NoErr /\ resolver.paths = <<>>)
       /\ runs["env"] >= 1 =>
             /\ failErr["env"] \in {"ErrProtoPath", "ErrShellwords"}
             /\ once["env"] = "done"
             /\ once["gRPCClient"] = "unstarted"
             /\ \A o \in outcomes["Env"] : o.val = NilHandle

\* the ambiguous entry stands last, after two good ones, and Env has failed
C15_Witness ==
    /\ cfg.ProtoPath = <<"./protos", "lib", "a b">>
    /\ resolver.pathsDone
    /\ resolver.err = "ErrProtoPath"
    /\ failErr["env"] = "ErrProtoPath"
    /\ runs["gRPCClient"] = 0

\* C16: resolveProtoFiles returns exactly the non-empty entries, verbatim,
\* in input order, duplicates kept; it has no error to return.
C16_FilesVerbatim ==
    resolver.filesDone =>
        LET in  == cfg.ProtoFile
            idx == {i \in 1..Len(in) : in[i] # ""}
        IN  /\ Len(resolver.files) = Cardinality(idx)
            /\ \A k \in 1..Len(resolver.files) : resolver.files[k] = in[Kth(idx, k)]

\* a duplicate, an empty name and a name with a space
C16_Witness ==
    /\ resolver.filesDone
    /\ cfg.ProtoFile = <<"a.proto", "", "a.proto">>
    /\ resolver.files = <<"a.proto", "a.proto">>

\* ------------------------------------------------------------ waiting calls
\* some context that is inside a call can take its next step
SomeCallSteps == \E c \in Ctx : stack[c] # <<>> /\ ENABLED Step(c)

\* while the process runs, the calls in progress never all wait for each other
NoWaitCycle ==
    (panicAt = "none" /\ \E c \in Ctx : stack[c] # <<>>) => SomeCallSteps

\* C18: no call is ever left unable to return: whenever calls are in progress,
\* in any interleaving of the contexts, one of them can take its next step.
C18_NoCallStuck == (\E c \in Ctx : stack[c] # <<>>) => SomeCallSteps

\* -------------------------------------------------------------- the Interactor
\* the InteractorParams a caller can pass: two handles of each component, and
\* a GRPCClient that may be nil
ParamsSet ==
    [Env : {"env1", "env2"}, OutputPort : {"out1", "out2"},
     InputterPort : {"in1", "in2"}, DynamicBuilder : {"builder1", "builder2"},
     GRPCClient : {"client1", NilHandle}]

\* the parameter values of the methods
MethodParams == {"params1", "params2"}

\* what a command handler can return: a reader, an error, or both
HandlerResults ==
    [res : {"reader1", "reader2", NilHandle}, err : {NoErr, "ErrHandler"}]

\* the handler each method delegates to
HandlerOf(method) ==
    CASE method = "Package"  -> "pbusecase.Package"
      [] method = "Service"  -> "Service"
      [] method = "Describe" -> "pbusecase.Describe"
      [] method = "Show"     -> "pbusecase.Show"
      [] method = "Header"   -> "Header"
      [] method = "Call"     -> "Call"

\* a Call that hands its handler no message builder
HandlerArgsWithoutBuilder(method, i, p) ==
    IF method = "Call"
    THEN <<p, i.outputPort, i.inputterPort, i.grpcPort, NilHandle, i.env>>
    ELSE <<p, i.outputPort, i.env>>

\* the arguments each method passes to its handler
HandlerArgs(method, i, p) ==
    IF method = "Call"
    THEN <<p, i.outputPort, i.inputterPort, i.grpcPort, i.dynamicBuilder, i.env>>
    ELSE <<p, i.outputPort, i.env>>

\* NewInteractor copies the five fields of params
NewInteractor(ip) ==
    /\ ~interactor.built
    /\ interactor' = [built |-> TRUE, env |-> ip.Env, outputPort |-> ip.OutputPort,
                      inputterPort |-> ip.InputterPort, grpcPort |-> ip.GRPCClient,
                      dynamicBuilder |-> ip.DynamicBuilder]
    /\ facade' = [facade EXCEPT !.given = ip]
    /\ UNCHANGED <<di, resolver>>

\* return handler(params, ...): the call the method makes, with its arguments,
\* what the handler returned (h) and what the method returns
Delegated(method, p, h) ==
    [method |-> method, handler |-> HandlerOf(method),
     args |-> HandlerArgs(method, interactor, p),
     hres |-> h.res, herr |-> h.err, res |-> h.res, err |-> h.err]

Package(p, h) ==
    /\ interactor.built
    /\ facade' = [facade EXCEPT !.last = Delegated("Package", p, h)]
    /\ UNCHANGED <<di, resolver, interactor>>

Service(p, h) ==
    /\ interactor.built
    /\ facade' = [facade EXCEPT !.last = Delegated("Service", p, h)]
    /\ UNCHANGED <<di, resolver, interactor>>

Describe(p, h) ==
    /\ interactor.built
    /\ facade' = [facade EXCEPT !.last = Delegated("Describe", p, h)]
    /\ UNCHANGED <<di, resolver, interactor>>

Show(p, h) ==
    /\ interactor.built
    /\ facade' = [facade EXCEPT !.last = Delegated("Show", p, h)]
    /\ UNCHANGED <<di, resolver, interactor>>

Header(p, h) ==
    /\ interactor.built
    /\ facade' = [facade EXCEPT !.last = Delegated("Header", p, h)]
    /\ UNCHANGED <<di, resolver, interactor>>

Call(p, h) ==
    /\ interactor.built
    /\ facade' = [facade EXCEPT !.last = Delegated("Call", p, h)]
    /\ UNCHANGED <<di, resolver, interactor>>

NextFacade ==
    \/ \E ip \in ParamsSet : NewInteractor(ip)
    \/ \E p \in MethodParams, h \in HandlerResults : Package(p, h)
    \/ \E p \in MethodParams, h \in HandlerResults : Service(p, h)
    \/ \E p \in MethodParams, h \in HandlerResults : Describe(p, h)
    \/ \E p \in MethodParams, h \in HandlerResults : Show(p, h)
    \/ \E p \in MethodParams, h \in HandlerResults : Header(p, h)
    \/ \E p \in MethodParams, h \in HandlerResults : Call(p, h)

SpecFacade == Init /\ [][NextFacade]_vars

\* the handles of the InteractorParams g that a method may pass on
GivenTo(method, g) ==
    IF method = "Call"
    THEN <<g.OutputPort, g.InputterPort, g.GRPCClient, g.DynamicBuilder, g.Env>>
    ELSE <<g.OutputPort, g.Env>>

\* C20: every method of the Interactor returns the result and the error its
\* handler returned, passes the handler its parameter followed by the handles
\* the Interactor was constructed with and no others, and leaves the
\* Interactor's fields as NewInteractor set them.
C20_FacadeDelegates ==
    /\ facade.last.method # "none" =>
          /\ facade.last.res = facade.last.hres
          /\ facade.last.err = facade.last.herr
          /\ facade.last.handler = HandlerOf(facade.last.method)
          /\ Tail(facade.last.args) = GivenTo(facade.last.method, facade.given)
    /\ interactor.built =>
          /\ interactor.env = facade.given.Env
          /\ interactor.outputPort = facade.given.OutputPort
          /\ interactor.inputterPort = facade.given.InputterPort
          /\ interactor.grpcPort = facade.given.GRPCClient
          /\ interactor.dynamicBuilder = facade.given.DynamicBuilder

\* Call has delegated with all five handles and its handler failed
C20_Witness ==
    /\ facade.last.method = "Call"
    /\ facade.last.args = <<"params2", "out2", "in1", "client1", "builder2", "env1">>
    /\ facade.last.herr = "ErrHandler"
    /\ facade.last.err = "ErrHandler"
    /\ interactor.dynamicBuilder = "builder2"

====
